---- MODULE Spec2Model ----
(***************************************************************************)
(* Model of src/main.py: the /scrape endpoint and the Scraper pipeline     *)
(* (fetch_page with retry, parse_page, cache_product against Redis,        *)
(* save_to_json, notify).                                                  *)
(*                                                                         *)
(* Text is a sequence of one-character strings, so that str.strip(), the   *)
(* f-string of the Redis key and the JSON round trip are computed and are  *)
(* not identities.  An Optional value is a sequence of length 0 (None) or   *)
(* 1 (the value).                                                          *)
(***************************************************************************)
EXTENDS Integers, Sequences, FiniteSets, TLC

VARIABLES
    catalog,        \* the site: page index -> sequence of listing containers
    retries,        \* Scraper.retries (main.py:64)
    redis,          \* redis_client's store: key -> value, Nil when missing
    snapshot,       \* content of json_file_path: None or a list of dicts
    nInv,           \* number of requests received so far
    prevDone,       \* limit_pages of the request before this one when it
                    \* returned 200, None otherwise
    pc,             \* per worker: position in the request handler
    token,          \* per worker: the request's token
    limit_pages,    \* per worker: the request's limit-pages
    page,           \* per worker: loop variable of main.py:121
    attempt,        \* per worker: loop variable of main.py:69
    content,        \* per worker: value fetch_page returned
    page_results,   \* per worker: value parse_page returned
    idx,            \* per worker: position of `product` in page_results
    cached,         \* per worker: cached_product of main.py:96
    ret,            \* per worker: value cache_product returned
    results,        \* per worker: results of main.py:118
    response,       \* per worker: the HTTP response of the request
    exc,            \* per worker: the exception that ended the request
    log,            \* per worker: side effects of this request, in order
    startRedis,     \* per worker: redis when the request arrived
    startSnap,      \* per worker: snapshot when the request arrived
    nAttempts,      \* per worker: requests.get calls of this fetch_page call
    nDelays,        \* per worker: time.sleep calls of this fetch_page call
    okAt,           \* per worker: the attempt whose response was a success
    lastErr,        \* per worker: the error of the latest failed attempt
    cpPre,          \* per worker: redis when cache_product was entered
    meter           \* per worker: the requests.get and time.sleep calls of
                    \* this scrape call so far, None where they are not
                    \* counted

vars == <<catalog, retries, redis, snapshot, nInv, prevDone, pc, token,
          limit_pages, page, attempt, content, page_results, idx, cached,
          ret, results, response, exc, log, startRedis, startSnap,
          nAttempts, nDelays, okAt, lastErr, cpPre, meter>>

----------------------------------------------------------------------------
(* Bounds of the model *)

MaxRetries == 3         \* Scraper.retries ranges over 0..MaxRetries
MaxLimit == 2           \* limit-pages ranges over None, -1, 0..MaxLimit
CatPages == 2           \* pages of the site that hold listings
MaxListings == 2        \* listing containers on the whole site
MaxInvocations == 2     \* requests in one behaviour
NumWorkers == 2         \* request-handling threads

(* Program constants *)

DefaultPages == 10      \* main.py:121  (limit_pages or 10)

None == <<>>            \* Python None
Some(x) == <<x>>        \* a value that is not None
Nil == <<>>             \* redis GET of a missing key (falsy, as b"" is)
SP == " "               \* a whitespace character

API_TOKEN == "secret"   \* main.py:31
Tokens == {"secret", "wrong"}

Workers == 1 .. NumWorkers
Limits == {None} \cup { Some(n) : n \in -1 .. MaxLimit }

----------------------------------------------------------------------------
(* Text *)

RECURSIVE LStrip(_)
LStrip(s) == IF s # <<>> /\ Head(s) = SP THEN LStrip(Tail(s)) ELSE s

RECURSIVE RStrip(_)
RStrip(s) ==
    IF s # <<>> /\ s[Len(s)] = SP THEN RStrip(SubSeq(s, 1, Len(s) - 1)) ELSE s

\* str.strip()
Strip(s) == RStrip(LStrip(s))

----------------------------------------------------------------------------
(* Products, listing containers, pages *)

Product(t, p, i) ==
    [product_title |-> t, product_price |-> p, path_to_image |-> i]

\* A listing container (div.product-inner): the text of its h2, the text of
\* its price span and the src of its img, each None when find() finds none.
Listing(h, s, i) == [h2 |-> h, span |-> s, img |-> i]

RawListings ==
    { Listing(Some(<<"A">>), Some(<<"1">>), Some(<<"x">>)),
      Listing(Some(<<SP, "A">>), Some(<<"2", SP>>), Some(<<"x">>)),
      Listing(Some(<<"A">>), Some(<<"1">>), Some(<<"y", SP>>)),
      Listing(Some(<<"B">>), Some(<<"1">>), Some(<<"x">>)),
      Listing(Some(<<"B">>), None, Some(<<"x">>)) }

IsWellFormed(l) == l.h2 # None /\ l.span # None /\ l.img # None

\* main.py:86-90, one iteration of the loop on a well-formed container
ParseListing(l) ==
    Product(Strip(l.h2[1]), Strip(l.span[1]), Strip(l.img[1]))

\* main.py:85-92: the loop over the containers in document order; a container
\* without one of its elements raises (AttributeError / TypeError) at once.
RECURSIVE ParseFrom(_, _, _)
ParseFrom(containers, i, acc) ==
    IF i > Len(containers) THEN [ok |-> TRUE, products |-> acc]
    ELSE IF ~IsWellFormed(containers[i]) THEN [ok |-> FALSE, products |-> <<>>]
    ELSE ParseFrom(containers, i + 1, Append(acc, ParseListing(containers[i])))

\* A faulty parse_page: a container lacking an element is skipped
ParsePageSkipping(c) ==
    IF c = None THEN [ok |-> FALSE, products |-> <<>>]
    ELSE [ok |-> TRUE,
          products |-> ParseFrom(SelectSeq(c[1], IsWellFormed), 1, <<>>).products]

\* A faulty parse_page: the loop stops at a container lacking an element and
\* the products before it are returned
RECURSIVE PrefixFrom(_, _, _)
PrefixFrom(containers, i, acc) ==
    IF i > Len(containers) \/ ~IsWellFormed(containers[i]) THEN acc
    ELSE PrefixFrom(containers, i + 1, Append(acc, ParseListing(containers[i])))

ParsePagePartial(c) ==
    IF c = None THEN [ok |-> FALSE, products |-> <<>>]
    ELSE [ok |-> TRUE, products |-> PrefixFrom(c[1], 1, <<>>)]

\* Scraper.parse_page on the content fetch_page returned: BeautifulSoup(None)
\* raises, content with containers is parsed in order.
ParsePageOf(c) ==
    IF c = None THEN [ok |-> FALSE, products |-> <<>>]
    ELSE ParseFrom(c[1], 1, <<>>)

SeqsUpTo(S, n) == UNION { [1 .. k -> S] : k \in 0 .. n }

RECURSIVE SumLen(_, _)
SumLen(f, n) == IF n = 0 THEN 0 ELSE Len(f[n]) + SumLen(f, n - 1)

\* The sites: CatPages pages holding at most MaxListings containers in all.
Catalogs ==
    { c \in [1 .. CatPages -> SeqsUpTo(RawListings, MaxListings)] :
        SumLen(c, CatPages) <= MaxListings }

\* What a successful GET of page p returns; a page past the site's last one
\* that answers at all answers with no listing container.
PageContent(p) == IF p \in DOMAIN catalog THEN catalog[p] ELSE <<>>

----------------------------------------------------------------------------
(* JSON and Redis *)

\* json.dumps(product.dict()): the object as its key/value pairs in order
Dumps(p) ==
    << <<"product_title", p.product_title>>,
       <<"product_price", p.product_price>>,
       <<"path_to_image", p.path_to_image>> >>

\* json.loads: the pairs back to a dict
Loads(s) ==
    [k \in { s[i][1] : i \in 1 .. Len(s) } |->
        s[CHOOSE i \in 1 .. Len(s) : s[i][1] = k][2]]

\* main.py:95
ProductKey(t) == <<"product:">> \o t

AllProducts ==
    { ParseListing(l) : l \in { r \in RawListings : IsWellFormed(r) } }

Titles == { p.product_title : p \in AllProducts }

Keys == { ProductKey(t) : t \in Titles }

\* Stores the program can have left behind: every key is missing or holds
\* the dump of a product of that title.
RedisStates ==
    { r \in [Keys -> {Nil} \cup { Dumps(p) : p \in AllProducts }] :
        \A t \in Titles :
            r[ProductKey(t)] # Nil
                => Loads(r[ProductKey(t)]).product_title = t }

\* Python truthiness of an Optional[int] (main.py:121, 130)
TruthyInt(o) == o # None /\ o[1] # 0

\* main.py:121: the last index of range(1, (limit_pages or 10) + 1)
PageBound(limit) == IF TruthyInt(limit) THEN limit[1] ELSE DefaultPages

----------------------------------------------------------------------------
(* Values the handler builds *)

Set(f, w, v) == [f EXCEPT ![w] = v]

\* An entry of log: what was done, on which page, to which key
Event(op, p, k) == [op |-> op, page |-> p, key |-> k]

\* An exception: its kind and the page and attempt it arose on
Error(kind, p, a) == [kind |-> kind, page |-> p, attempt |-> a]

\* The HTTP response: status and the products of ScrapeResponse
Reply(status, products) == [status |-> status, products |-> products]

\* main.py:115: json.dump([product.dict() for product in products], ...)
JsonList(ps) == [i \in 1 .. Len(ps) |-> Dumps(ps[i])]

\* A faulty get_current_user: every token passes
TokenValidAny(tk) == TRUE

\* main.py:147
TokenValid(tk) == tk = API_TOKEN

\* main.py:75: sleep and go on, or raise
ShouldRetry(a, r) == a < r - 1

\* A faulty comparison: any entry under the key counts as unchanged
IsUnchangedAnyEntry(c, product) == c # Nil

\* A faulty comparison: the whole stored product is compared, not the price
IsUnchangedWhole(c, product) == c = Dumps(product)

\* main.py:98-101: the cached value makes the product unchanged
IsUnchanged(c, product) ==
    c # Nil /\ Loads(c)["product_price"] = product.product_price

\* A faulty cache_product: nothing is stored
StoreNothing(r, product) == r

\* main.py:103: the store after redis_client.set(product_key, ...)
StoreProduct(r, product) ==
    [r EXCEPT ![ProductKey(product.product_title)] = Dumps(product)]

\* A faulty save_to_json: the list is appended to what the file held
WrittenFileAppend(old, ps) ==
    Some((IF old = None THEN <<>> ELSE old[1]) \o JsonList(ps))

\* main.py:114-115: what the file holds after open(..., 'w') and json.dump
WrittenFile(old, ps) == Some(JsonList(ps))

\* main.py:130: break out of the page loop
ShouldBreak(limit, p) == TruthyInt(limit) /\ p >= limit[1]

Terminal == {"done", "failed", "forbidden"}

\* The meter after a more requests.get calls and d more time.sleep calls
Tick(m, a, d) ==
    IF m = None THEN None
    ELSE Some([attempts |-> m[1].attempts + a, delays |-> m[1].delays + d])

\* The meter at the start of a scrape call
Reset(m) == IF m = None THEN None ELSE Some([attempts |-> 0, delays |-> 0])

----------------------------------------------------------------------------
(* The request handler, one action per step; w is the worker thread *)

\* A GET /scrape arrives (main.py:151-154)
Request(w) ==
    /\ pc[w] \in Terminal \cup {"idle"}
    /\ nInv < MaxInvocations
    /\ \E tk \in Tokens, lim \in Limits :
        /\ token' = Set(token, w, tk)
        /\ limit_pages' = Set(limit_pages, w, lim)
    /\ nInv' = nInv + 1
    /\ prevDone' = IF pc[w] = "done" THEN Some(limit_pages[w]) ELSE None
    /\ pc' = Set(pc, w, "get_current_user")
    /\ page' = Set(page, w, 0)
    /\ attempt' = Set(attempt, w, 0)
    /\ content' = Set(content, w, None)
    /\ page_results' = Set(page_results, w, <<>>)
    /\ idx' = Set(idx, w, 0)
    /\ cached' = Set(cached, w, Nil)
    /\ ret' = Set(ret, w, FALSE)
    /\ results' = Set(results, w, <<>>)
    /\ response' = Set(response, w, None)
    /\ exc' = Set(exc, w, None)
    /\ log' = Set(log, w, <<>>)
    /\ startRedis' = Set(startRedis, w, redis)
    /\ startSnap' = Set(startSnap, w, snapshot)
    /\ nAttempts' = Set(nAttempts, w, 0)
    /\ nDelays' = Set(nDelays, w, 0)
    /\ okAt' = Set(okAt, w, 0)
    /\ lastErr' = Set(lastErr, w, None)
    /\ cpPre' = Set(cpPre, w, redis)
    /\ meter' = Set(meter, w, Reset(meter[w]))
    /\ UNCHANGED <<catalog, retries, redis, snapshot>>

\* get_current_user (main.py:146-149)
GetCurrentUser(w) ==
    /\ pc[w] = "get_current_user"
    /\ IF TokenValid(token[w])
       THEN /\ pc' = Set(pc, w, "scrape")
            /\ response' = response
       ELSE /\ pc' = Set(pc, w, "forbidden")
            /\ response' = Set(response, w, Some(Reply(403, <<>>)))
    /\ UNCHANGED meter
    /\ UNCHANGED <<catalog, retries, redis, snapshot, nInv, prevDone,
                   token, limit_pages, page, attempt, content,
                   page_results, idx, cached, ret, results, exc, log,
                   startRedis, startSnap, nAttempts, nDelays, okAt,
                   lastErr, cpPre>>

\* scrape, before the page loop (main.py:118-119)
ScrapeBegin(w) ==
    /\ pc[w] = "scrape"
    /\ results' = Set(results, w, <<>>)
    /\ page' = Set(page, w, 0)
    /\ pc' = Set(pc, w, "for_page")
    /\ UNCHANGED meter
    /\ UNCHANGED <<catalog, retries, redis, snapshot, nInv, prevDone,
                   token, limit_pages, attempt, content, page_results, idx,
                   cached, ret, response, exc, log, startRedis, startSnap,
                   nAttempts, nDelays, okAt, lastErr, cpPre>>

\* for page in range(1, (limit_pages or 10) + 1) (main.py:121-123)
ForPage(w) ==
    /\ pc[w] = "for_page"
    /\ IF page[w] + 1 <= PageBound(limit_pages[w])
       THEN /\ page' = Set(page, w, page[w] + 1)
            /\ attempt' = Set(attempt, w, 0)
            /\ nAttempts' = Set(nAttempts, w, 0)
            /\ nDelays' = Set(nDelays, w, 0)
            /\ okAt' = Set(okAt, w, 0)
            /\ lastErr' = Set(lastErr, w, None)
            /\ pc' = Set(pc, w, "fetch_page")
       ELSE /\ pc' = Set(pc, w, "save_to_json")
            /\ UNCHANGED <<page, attempt, nAttempts, nDelays, okAt, lastErr>>
    /\ UNCHANGED meter
    /\ UNCHANGED <<catalog, retries, redis, snapshot, nInv, prevDone,
                   token, limit_pages, content, page_results, idx, cached,
                   ret, results, response, exc, log, startRedis, startSnap,
                   cpPre>>

\* fetch_page: an attempt whose response is a success (main.py:69-73)
FetchOk(w) ==
    /\ pc[w] = "fetch_page"
    /\ attempt[w] < retries
    /\ nAttempts' = Set(nAttempts, w, nAttempts[w] + 1)
    /\ meter' = Set(meter, w, Tick(meter[w], 1, 0))
    /\ okAt' = Set(okAt, w, nAttempts[w] + 1)
    /\ content' = Set(content, w, Some(PageContent(page[w])))
    /\ log' = Set(log, w, Append(log[w], Event("fetch", page[w], <<>>)))
    /\ pc' = Set(pc, w, "parse_page")
    /\ UNCHANGED <<catalog, retries, redis, snapshot, nInv, prevDone,
                   token, limit_pages, page, attempt, page_results, idx,
                   cached, ret, results, response, exc, startRedis,
                   startSnap, nDelays, lastErr, cpPre>>

\* A faulty fetch_page: a failed attempt is retried without the delay
FetchFailNoSleep(w) ==
    /\ pc[w] = "fetch_page"
    /\ attempt[w] < retries
    /\ nAttempts' = Set(nAttempts, w, nAttempts[w] + 1)
    /\ meter' = Set(meter, w, Tick(meter[w], 1, 0))
    /\ lastErr' = Set(lastErr, w,
                      Some(Error("RequestException", page[w], attempt[w])))
    /\ IF ShouldRetry(attempt[w], retries)
       THEN /\ attempt' = Set(attempt, w, attempt[w] + 1)
            /\ UNCHANGED <<pc, exc, response>>
       ELSE /\ exc' = Set(exc, w,
                          Some(Error("RequestException", page[w], attempt[w])))
            /\ response' = Set(response, w, Some(Reply(500, <<>>)))
            /\ pc' = Set(pc, w, "failed")
            /\ UNCHANGED attempt
    /\ UNCHANGED <<catalog, retries, redis, snapshot, nInv, prevDone,
                   token, limit_pages, page, content, page_results, idx,
                   cached, ret, results, log, startRedis, startSnap,
                   nDelays, okAt, cpPre>>

\* fetch_page: an attempt that raises RequestException (main.py:69-78)
FetchFail(w) ==
    /\ pc[w] = "fetch_page"
    /\ attempt[w] < retries
    /\ nAttempts' = Set(nAttempts, w, nAttempts[w] + 1)
    /\ meter' = Set(meter, w,
                    Tick(meter[w], 1,
                         IF ShouldRetry(attempt[w], retries) THEN 1 ELSE 0))
    /\ lastErr' = Set(lastErr, w,
                      Some(Error("RequestException", page[w], attempt[w])))
    /\ IF ShouldRetry(attempt[w], retries)
       THEN /\ nDelays' = Set(nDelays, w, nDelays[w] + 1)
            /\ attempt' = Set(attempt, w, attempt[w] + 1)
            /\ UNCHANGED <<pc, exc, response>>
       ELSE /\ exc' = Set(exc, w,
                          Some(Error("RequestException", page[w], attempt[w])))
            /\ response' = Set(response, w, Some(Reply(500, <<>>)))
            /\ pc' = Set(pc, w, "failed")
            /\ UNCHANGED <<nDelays, attempt>>
    /\ UNCHANGED <<catalog, retries, redis, snapshot, nInv, prevDone,
                   token, limit_pages, page, content, page_results, idx,
                   cached, ret, results, log, startRedis, startSnap, okAt,
                   cpPre>>

\* fetch_page: an attempt whose requests.get never returns; the call passes
\* no timeout, so a site that accepts the request and sends nothing keeps
\* the thread in the call (main.py:71)
FetchHang(w) ==
    /\ pc[w] = "fetch_page"
    /\ attempt[w] < retries
    /\ nAttempts' = Set(nAttempts, w, nAttempts[w] + 1)
    /\ meter' = Set(meter, w, Tick(meter[w], 1, 0))
    /\ pc' = Set(pc, w, "requests_get")
    /\ UNCHANGED <<catalog, retries, redis, snapshot, nInv, prevDone,
                   token, limit_pages, page, attempt, content,
                   page_results, idx, cached, ret, results, response, exc,
                   log, startRedis, startSnap, nDelays, okAt, lastErr,
                   cpPre>>

\* fetch_page: range(self.retries) is exhausted without a return or a raise,
\* so the function ends and returns None (main.py:69)
FetchNone(w) ==
    /\ pc[w] = "fetch_page"
    /\ attempt[w] >= retries
    /\ content' = Set(content, w, None)
    /\ pc' = Set(pc, w, "parse_page")
    /\ UNCHANGED meter
    /\ UNCHANGED <<catalog, retries, redis, snapshot, nInv, prevDone,
                   token, limit_pages, page, attempt, page_results, idx,
                   cached, ret, results, response, exc, log, startRedis,
                   startSnap, nAttempts, nDelays, okAt, lastErr, cpPre>>

\* parse_page (main.py:124, 80-92)
ParsePage(w) ==
    /\ pc[w] = "parse_page"
    /\ LET r == ParsePageOf(content[w]) IN
        IF r.ok
        THEN /\ page_results' = Set(page_results, w, r.products)
             /\ idx' = Set(idx, w, 0)
             /\ pc' = Set(pc, w, "for_product")
             /\ UNCHANGED <<exc, response>>
        ELSE /\ exc' = Set(exc, w, Some(Error("ParseError", page[w], 0)))
             /\ response' = Set(response, w, Some(Reply(500, <<>>)))
             /\ pc' = Set(pc, w, "failed")
             /\ UNCHANGED <<page_results, idx>>
    /\ UNCHANGED meter
    /\ UNCHANGED <<catalog, retries, redis, snapshot, nInv, prevDone,
                   token, limit_pages, page, attempt, content, cached, ret,
                   results, log, startRedis, startSnap, nAttempts, nDelays,
                   okAt, lastErr, cpPre>>

\* for product in page_results (main.py:126)
ForProduct(w) ==
    /\ pc[w] = "for_product"
    /\ IF idx[w] < Len(page_results[w])
       THEN /\ idx' = Set(idx, w, idx[w] + 1)
            /\ cpPre' = Set(cpPre, w, redis)
            /\ pc' = Set(pc, w, "cache_get")
       ELSE /\ pc' = Set(pc, w, "page_end")
            /\ UNCHANGED <<idx, cpPre>>
    /\ UNCHANGED meter
    /\ UNCHANGED <<catalog, retries, redis, snapshot, nInv, prevDone,
                   token, limit_pages, page, attempt, content,
                   page_results, cached, ret, results, response, exc, log,
                   startRedis, startSnap, nAttempts, nDelays, okAt,
                   lastErr>>

\* cache_product: the GET (main.py:95-96)
CacheGet(w) ==
    /\ pc[w] = "cache_get"
    /\ LET key == ProductKey(page_results[w][idx[w]].product_title) IN
        /\ cached' = Set(cached, w, redis[key])
        /\ log' = Set(log, w, Append(log[w], Event("get", page[w], key)))
    /\ pc' = Set(pc, w, "cache_check")
    /\ UNCHANGED meter
    /\ UNCHANGED <<catalog, retries, redis, snapshot, nInv, prevDone,
                   token, limit_pages, page, attempt, content,
                   page_results, idx, ret, results, response, exc,
                   startRedis, startSnap, nAttempts, nDelays, okAt,
                   lastErr, cpPre>>

\* cache_product: the comparison, the SET and the return (main.py:98-104)
CacheCheck(w) ==
    /\ pc[w] = "cache_check"
    /\ LET product == page_results[w][idx[w]] IN
        IF IsUnchanged(cached[w], product)
        THEN /\ ret' = Set(ret, w, FALSE)
             /\ UNCHANGED <<redis, log>>
        ELSE /\ redis' = StoreProduct(redis, product)
             /\ log' = Set(log, w, Append(log[w],
                    Event("set", page[w], ProductKey(product.product_title))))
             /\ ret' = Set(ret, w, TRUE)
    /\ pc' = Set(pc, w, "collect")
    /\ UNCHANGED meter
    /\ UNCHANGED <<catalog, retries, snapshot, nInv, prevDone, token,
                   limit_pages, page, attempt, content, page_results, idx,
                   cached, results, response, exc, startRedis, startSnap,
                   nAttempts, nDelays, okAt, lastErr, cpPre>>

\* A faulty scrape: every parsed product is collected
CollectAlways(w) ==
    /\ pc[w] = "collect"
    /\ results' = Set(results, w, Append(results[w], page_results[w][idx[w]]))
    /\ pc' = Set(pc, w, "for_product")
    /\ UNCHANGED meter
    /\ UNCHANGED <<catalog, retries, redis, snapshot, nInv, prevDone, token,
                   limit_pages, page, attempt, content, page_results, idx,
                   cached, ret, response, exc, log, startRedis, startSnap,
                   nAttempts, nDelays, okAt, lastErr, cpPre>>

\* if self.cache_product(product): results.append(product) (main.py:127-128)
Collect(w) ==
    /\ pc[w] = "collect"
    /\ results' = Set(results, w,
                      IF ret[w]
                      THEN Append(results[w], page_results[w][idx[w]])
                      ELSE results[w])
    /\ pc' = Set(pc, w, "for_product")
    /\ UNCHANGED meter
    /\ UNCHANGED <<catalog, retries, redis, snapshot, nInv, prevDone,
                   token, limit_pages, page, attempt, content,
                   page_results, idx, cached, ret, response, exc, log,
                   startRedis, startSnap, nAttempts, nDelays, okAt,
                   lastErr, cpPre>>

\* if limit_pages and page >= limit_pages: break (main.py:130-131)
PageEnd(w) ==
    /\ pc[w] = "page_end"
    /\ pc' = Set(pc, w, IF ShouldBreak(limit_pages[w], page[w])
                         THEN "save_to_json" ELSE "for_page")
    /\ UNCHANGED meter
    /\ UNCHANGED <<catalog, retries, redis, snapshot, nInv, prevDone,
                   token, limit_pages, page, attempt, content,
                   page_results, idx, cached, ret, results, response, exc,
                   log, startRedis, startSnap, nAttempts, nDelays, okAt,
                   lastErr, cpPre>>

\* A faulty scrape: an empty changed list is not written
SaveToJsonSkipEmpty(w) ==
    /\ pc[w] = "save_to_json"
    /\ IF results[w] = <<>>
       THEN UNCHANGED <<snapshot, log>>
       ELSE /\ snapshot' = WrittenFile(snapshot, results[w])
            /\ log' = Set(log, w, Append(log[w], Event("save", page[w], <<>>)))
    /\ pc' = Set(pc, w, "notify")
    /\ UNCHANGED meter
    /\ UNCHANGED <<catalog, retries, redis, nInv, prevDone, token,
                   limit_pages, page, attempt, content, page_results, idx,
                   cached, ret, results, response, exc, startRedis,
                   startSnap, nAttempts, nDelays, okAt, lastErr, cpPre>>

\* save_to_json writes the file (main.py:133, 106-115)
SaveToJson(w) ==
    /\ pc[w] = "save_to_json"
    /\ snapshot' = WrittenFile(snapshot, results[w])
    /\ log' = Set(log, w, Append(log[w], Event("save", page[w], <<>>)))
    /\ pc' = Set(pc, w, "notify")
    /\ UNCHANGED meter
    /\ UNCHANGED <<catalog, retries, redis, nInv, prevDone, token,
                   limit_pages, page, attempt, content, page_results, idx,
                   cached, ret, results, response, exc, startRedis,
                   startSnap, nAttempts, nDelays, okAt, lastErr, cpPre>>

\* A faulty scrape: the failure of save_to_json is caught and scrape goes on
SaveFailSwallowed(w) ==
    /\ pc[w] = "save_to_json"
    /\ exc' = Set(exc, w, Some(Error("OSError", page[w], 0)))
    /\ pc' = Set(pc, w, "notify")
    /\ UNCHANGED meter
    /\ UNCHANGED <<catalog, retries, redis, snapshot, nInv, prevDone, token,
                   limit_pages, page, attempt, content, page_results, idx,
                   cached, ret, results, response, log, startRedis,
                   startSnap, nAttempts, nDelays, okAt, lastErr, cpPre>>

\* save_to_json raises before the file is opened for writing: makedirs or
\* open fails (main.py:110-114)
SaveFail(w) ==
    /\ pc[w] = "save_to_json"
    /\ exc' = Set(exc, w, Some(Error("OSError", page[w], 0)))
    /\ response' = Set(response, w, Some(Reply(500, <<>>)))
    /\ pc' = Set(pc, w, "failed")
    /\ UNCHANGED meter
    /\ UNCHANGED <<catalog, retries, redis, snapshot, nInv, prevDone,
                   token, limit_pages, page, attempt, content,
                   page_results, idx, cached, ret, results, log,
                   startRedis, startSnap, nAttempts, nDelays, okAt,
                   lastErr, cpPre>>

\* self.notifier.notify(...) returns (main.py:135)
Notify(w) ==
    /\ pc[w] = "notify"
    /\ log' = Set(log, w, Append(log[w], Event("notify", Len(results[w]), <<>>)))
    /\ pc' = Set(pc, w, "return")
    /\ UNCHANGED meter
    /\ UNCHANGED <<catalog, retries, redis, snapshot, nInv, prevDone,
                   token, limit_pages, page, attempt, content,
                   page_results, idx, cached, ret, results, response, exc,
                   startRedis, startSnap, nAttempts, nDelays, okAt,
                   lastErr, cpPre>>

\* self.notifier.notify(...) raises; scrape has no handler (main.py:135)
NotifyFail(w) ==
    /\ pc[w] = "notify"
    /\ exc' = Set(exc, w, Some(Error("NotifyError", page[w], 0)))
    /\ response' = Set(response, w, Some(Reply(500, <<>>)))
    /\ pc' = Set(pc, w, "failed")
    /\ UNCHANGED meter
    /\ UNCHANGED <<catalog, retries, redis, snapshot, nInv, prevDone,
                   token, limit_pages, page, attempt, content,
                   page_results, idx, cached, ret, results, log,
                   startRedis, startSnap, nAttempts, nDelays, okAt,
                   lastErr, cpPre>>

\* return results; the endpoint wraps them in ScrapeResponse (main.py:136,
\* 155-156)
ScrapeReturn(w) ==
    /\ pc[w] = "return"
    /\ response' = Set(response, w, Some(Reply(200, results[w])))
    /\ pc' = Set(pc, w, "done")
    /\ UNCHANGED meter
    /\ UNCHANGED <<catalog, retries, redis, snapshot, nInv, prevDone,
                   token, limit_pages, page, attempt, content,
                   page_results, idx, cached, ret, results, exc, log,
                   startRedis, startSnap, nAttempts, nDelays, okAt,
                   lastErr, cpPre>>

Step(w) ==
    \/ Request(w)
    \/ GetCurrentUser(w)
    \/ ScrapeBegin(w)
    \/ ForPage(w)
    \/ FetchOk(w)
    \/ FetchFail(w)
    \/ FetchHang(w)
    \/ FetchNone(w)
    \/ ParsePage(w)
    \/ ForProduct(w)
    \/ CacheGet(w)
    \/ CacheCheck(w)
    \/ Collect(w)
    \/ PageEnd(w)
    \/ SaveToJson(w)
    \/ SaveFail(w)
    \/ Notify(w)
    \/ NotifyFail(w)
    \/ ScrapeReturn(w)

----------------------------------------------------------------------------
(* Specifications *)

InitWorkers ==
    /\ nInv = 0
    /\ prevDone = None
    /\ pc = [w \in Workers |-> "idle"]
    /\ token = [w \in Workers |-> API_TOKEN]
    /\ limit_pages = [w \in Workers |-> None]
    /\ page = [w \in Workers |-> 0]
    /\ attempt = [w \in Workers |-> 0]
    /\ content = [w \in Workers |-> None]
    /\ page_results = [w \in Workers |-> <<>>]
    /\ idx = [w \in Workers |-> 0]
    /\ cached = [w \in Workers |-> Nil]
    /\ ret = [w \in Workers |-> FALSE]
    /\ results = [w \in Workers |-> <<>>]
    /\ response = [w \in Workers |-> None]
    /\ exc = [w \in Workers |-> None]
    /\ log = [w \in Workers |-> <<>>]
    /\ startRedis = [w \in Workers |-> redis]
    /\ startSnap = [w \in Workers |-> snapshot]
    /\ nAttempts = [w \in Workers |-> 0]
    /\ nDelays = [w \in Workers |-> 0]
    /\ okAt = [w \in Workers |-> 0]
    /\ lastErr = [w \in Workers |-> None]
    /\ cpPre = [w \in Workers |-> redis]

\* The service as main.py:138-144 starts it: a Scraper with its retries, the
\* site it scrapes, a Redis store without product keys and no snapshot file.
Init ==
    /\ catalog \in Catalogs
    /\ retries \in 0 .. MaxRetries
    /\ redis = [k \in Keys |-> Nil]
    /\ snapshot = None
    /\ meter = [w \in Workers |-> None]
    /\ InitWorkers

\* One request at a time
Next == Step(1)

Spec == Init /\ [][Next]_vars

\* Requests handled at the same time, each by its own thread (FastAPI runs a
\* def endpoint in a thread pool): a site with one well-formed listing on its
\* first page, a Scraper that makes no attempt or one.
InitConc ==
    /\ catalog \in { c \in Catalogs : /\ Len(c[1]) = 1
                                       /\ SumLen(c, CatPages) = 1
                                       /\ IsWellFormed(c[1][1]) }
    /\ retries \in 0 .. 1
    /\ redis = [k \in Keys |-> Nil]
    /\ snapshot = None
    /\ meter = [w \in Workers |-> None]
    /\ InitWorkers

NextConc == \E w \in Workers : Step(w)

SpecConc == InitConc /\ [][NextConc]_vars

\* One request at a time with the scrape call's requests.get and time.sleep
\* calls counted, on a site with at most one listing. The thread that handles
\* the request keeps running: while a step of the handler can be taken, one
\* is taken.
InitMetered ==
    /\ catalog \in { c \in Catalogs : SumLen(c, CatPages) <= 1 }
    /\ retries \in 0 .. MaxRetries
    /\ redis = [k \in Keys |-> Nil]
    /\ snapshot = None
    /\ meter = [w \in Workers |-> Some([attempts |-> 0, delays |-> 0])]
    /\ InitWorkers

SpecFair == InitMetered /\ [][Next]_vars /\ WF_vars(Next)


----------------------------------------------------------------------------
(* Vocabulary of the properties *)

\* The product cache_product is working on, or has just worked on
CurProduct(w) == page_results[w][idx[w]]

CurKey(w) == ProductKey(CurProduct(w).product_title)

\* What the store held under that key when cache_product was entered
PreEntry(w) == cpPre[w][CurKey(w)]

\* cache_product has returned and its result has not been used yet
Returned(w) == pc[w] = "collect"

Count(w, op) == Cardinality({ i \in 1 .. Len(log[w]) : log[w][i].op = op })

\* The page indices fetched by this request, in order
RECURSIVE FetchedFrom(_, _)
FetchedFrom(l, i) ==
    IF i > Len(l) THEN <<>>
    ELSE IF l[i].op = "fetch" THEN <<l[i].page>> \o FetchedFrom(l, i + 1)
    ELSE FetchedFrom(l, i + 1)

Fetched(w) == FetchedFrom(log[w], 1)

UpTo(n) == [i \in 1 .. n |-> i]

PageWork == {"fetch", "get", "set"}

TypeOK ==
    /\ catalog \in Catalogs
    /\ retries \in 0 .. MaxRetries
    /\ redis \in RedisStates
    /\ nInv \in 0 .. MaxInvocations
    /\ \A w \in Workers :
        /\ limit_pages[w] \in Limits
        /\ token[w] \in Tokens
        /\ page[w] \in 0 .. DefaultPages
        /\ attempt[w] \in 0 .. MaxRetries
        /\ idx[w] \in 0 .. Len(page_results[w])

----------------------------------------------------------------------------
(* C1: cache_product on a product whose title has no entry, or an entry with
   a different price, stores the serialized product under the title's key and
   returns true, whatever the image path is. *)
C1_StoresNewOrChanged ==
    \A w \in Workers :
        (/\ Returned(w)
         /\ \/ PreEntry(w) = Nil
            \/ Loads(PreEntry(w))["product_price"]
                   # CurProduct(w).product_price)
        => /\ ret[w] = TRUE
           /\ redis[CurKey(w)] = Dumps(CurProduct(w))
           /\ Loads(redis[CurKey(w)]) = CurProduct(w)

C1_Witness ==
    \E w \in Workers :
        /\ Returned(w)
        /\ PreEntry(w) # Nil
        /\ Loads(PreEntry(w))["product_price"] # CurProduct(w).product_price
        /\ ret[w] = TRUE
        /\ redis[CurKey(w)] = Dumps(CurProduct(w))

(* C2: cache_product on a product whose title has an entry with an equal
   price returns false and writes nothing: the whole store is as it was on
   entry, even when the image path differs from the stored one. *)
C2_EqualPriceNoWrite ==
    \A w \in Workers :
        (/\ Returned(w)
         /\ PreEntry(w) # Nil
         /\ Loads(PreEntry(w))["product_price"] = CurProduct(w).product_price)
        => /\ ret[w] = FALSE
           /\ redis = cpPre[w]
           /\ log[w][Len(log[w])].op = "get"

C2_Witness ==
    \E w \in Workers :
        /\ Returned(w)
        /\ PreEntry(w) # Nil
        /\ Loads(PreEntry(w))["product_price"] = CurProduct(w).product_price
        /\ Loads(PreEntry(w))["path_to_image"] # CurProduct(w).path_to_image
        /\ ret[w] = FALSE
        /\ redis = cpPre[w]

(* C3: a request that returns has done all its page work first, then exactly
   one snapshot write, then exactly one notification; this also when the
   changed list is empty, and with no cache access after the snapshot
   write. *)
C3_StepOrder ==
    \A w \in Workers :
        /\ Count(w, "save") <= 1
        /\ Count(w, "notify") <= 1
        /\ \A i, j \in 1 .. Len(log[w]) :
            i < j => /\ ~(log[w][i].op = "save" /\ log[w][j].op \in PageWork)
                     /\ ~(log[w][i].op = "notify" /\ log[w][j].op # "notify")
        /\ pc[w] \in {"return", "done"}
            => /\ Len(log[w]) >= 2
               /\ log[w][Len(log[w]) - 1].op = "save"
               /\ log[w][Len(log[w])].op = "notify"
               /\ log[w][Len(log[w])].page = Len(results[w])
        /\ pc[w] = "done" => response[w] = Some(Reply(200, results[w]))

C3_Witness ==
    \E w \in Workers :
        /\ pc[w] = "done"
        /\ results[w] = <<>>
        /\ Count(w, "get") > 0
        /\ Count(w, "save") = 1
        /\ Count(w, "notify") = 1

\* The fetch_page call for the current page ended without a success
FetchGaveUp(w) ==
    /\ page[w] >= 1
    /\ pc[w] \notin {"for_page", "fetch_page", "requests_get"}
    /\ okAt[w] = 0

\* The current page was fetched and holds a container lacking an element
PageMalformed(w) ==
    /\ page[w] >= 1
    /\ pc[w] \notin {"for_page", "fetch_page"}
    /\ okAt[w] > 0
    /\ \E i \in 1 .. Len(content[w][1]) : ~IsWellFormed(content[w][1][i])

(* C4: when a fetch gives up or a page is malformed, the request aborts: it
   writes no snapshot and sends no notification, the snapshot file keeps the
   content it had when the request arrived, and no later page is fetched. *)
C4_FailureAborts ==
    \A w \in Workers :
        (FetchGaveUp(w) \/ PageMalformed(w))
        => /\ pc[w] \in {"parse_page", "failed"}
           /\ Count(w, "save") = 0
           /\ Count(w, "notify") = 0
           /\ snapshot = startSnap[w]
           /\ \A i \in 1 .. Len(log[w]) : log[w][i].page <= page[w]
           /\ pc[w] = "failed"
                => /\ exc[w] # None
                   /\ exc[w][1].page = page[w]
                   /\ response[w] = Some(Reply(500, <<>>))

C4_Witness ==
    \E w \in Workers :
        /\ PageMalformed(w)
        /\ pc[w] = "failed"
        /\ page[w] = 2
        /\ startSnap[w] # None
        /\ startSnap[w][1] # <<>>
        /\ snapshot = startSnap[w]

\* The page bound the requests are documented to have: limit-pages when it
\* is supplied, 10 otherwise
StatedBound(limit) == IF limit # None THEN limit[1] ELSE DefaultPages

(* C5: a request that does not fail fetches the pages 1, 2, ..., N in
   ascending order, each once, N being limit-pages whenever it is supplied
   and 10 otherwise, and never fetches a page above N. *)
C5_PagesOneToLimit ==
    \A w \in Workers :
        /\ \A i \in 1 .. Len(Fetched(w)) :
            Fetched(w)[i] = i /\ i <= StatedBound(limit_pages[w])
        /\ pc[w] = "done"
            => Fetched(w) = UpTo(StatedBound(limit_pages[w]))

\* The same with the bound the code computes, limit_pages or 10: the pages
\* fetched are 1, 2, ... up to it, and all of them when the request returns.
PagesOneToBound ==
    \A w \in Workers :
        /\ \A i \in 1 .. Len(Fetched(w)) :
            Fetched(w)[i] = i /\ i <= PageBound(limit_pages[w])
        /\ pc[w] = "done"
            => Fetched(w) = UpTo(PageBound(limit_pages[w]))

\* Every product the site lists
CatalogProducts ==
    { ParseListing(catalog[p][i]) :
        <<p, i>> \in { q \in (DOMAIN catalog) \X (1 .. MaxListings) :
                        /\ q[2] <= Len(catalog[q[1]])
                        /\ IsWellFormed(catalog[q[1]][q[2]]) } }

\* Listings of one title all show one price
OnePricePerTitle ==
    \A p, q \in CatalogProducts :
        p.product_title = q.product_title
            => p.product_price = q.product_price

\* This request returned, and so did the one before it, with the same limit
SecondRun(w) ==
    pc[w] = "done" /\ prevDone = Some(limit_pages[w])

(* C6 as stated: for every catalog, a request run right after a completed one
   against the unchanged catalog with the same limit returns an empty changed
   list and writes an empty snapshot. *)
C6_SecondRunEmpty ==
    \A w \in Workers :
        SecondRun(w) => results[w] = <<>> /\ snapshot = Some(<<>>)

(* C6 amended: the same for every catalog whose listings of one title all
   show the same price. *)
C6_SecondRunEmptyOnePrice ==
    \A w \in Workers :
        (SecondRun(w) /\ OnePricePerTitle)
        => /\ results[w] = <<>>
           /\ snapshot = Some(<<>>)
           /\ response[w] = Some(Reply(200, <<>>))

C6_Witness ==
    \E w \in Workers :
        /\ SecondRun(w)
        /\ OnePricePerTitle
        /\ Count(w, "get") = 2
        /\ startSnap[w] # None
        /\ Len(startSnap[w][1]) > 0
        /\ results[w] = <<>>
        /\ snapshot = Some(<<>>)

(* C7: a request whose token is not the shared secret is answered with 403
   and never reaches the pipeline: no fetch, no cache read or write, no
   snapshot write, no notification; store and snapshot are as they were. *)
C7_BadTokenForbidden ==
    \A w \in Workers :
        (pc[w] # "idle" /\ token[w] # API_TOKEN)
        => /\ pc[w] \in {"get_current_user", "forbidden"}
           /\ log[w] = <<>>
           /\ nAttempts[w] = 0
           /\ redis = startRedis[w]
           /\ snapshot = startSnap[w]
           /\ pc[w] = "forbidden" => response[w] = Some(Reply(403, <<>>))

C7_Witness ==
    \E w \in Workers :
        /\ pc[w] = "forbidden"
        /\ token[w] # API_TOKEN
        /\ response[w] = Some(Reply(403, <<>>))
        /\ \E k \in Keys : redis[k] # Nil
        /\ snapshot # None

(* C8: when the first successful response of fetch_page is that of attempt k
   (1 <= k <= retries), fetch_page returns that response's content after
   exactly k attempts and k - 1 delays and makes no further attempt. *)
C8_SuccessAtK ==
    \A w \in Workers :
        okAt[w] > 0
        => /\ pc[w] # "fetch_page"
           /\ okAt[w] <= retries
           /\ nAttempts[w] = okAt[w]
           /\ nDelays[w] = okAt[w] - 1
           /\ attempt[w] = okAt[w] - 1
           /\ pc[w] = "parse_page"
                => content[w] = Some(PageContent(page[w]))

C8_Witness ==
    \E w \in Workers :
        /\ pc[w] = "parse_page"
        /\ retries = 3
        /\ okAt[w] = 3
        /\ nAttempts[w] = 3
        /\ nDelays[w] = 2
        /\ content[w] = Some(PageContent(page[w]))
        /\ content[w][1] # <<>>

(* C9: with a backend that always fails, fetch_page raises after exactly
   `retries` attempts, for every value of `retries`; the error is that of
   the last attempt and no delay follows the last attempt. *)
C9_AlwaysFailRaises ==
    \A w \in Workers :
        FetchGaveUp(w)
        => /\ pc[w] = "failed"
           /\ exc[w] # None
           /\ exc[w] = lastErr[w]
           /\ exc[w][1].kind = "RequestException"
           /\ nAttempts[w] = retries
           /\ nDelays[w] = retries - 1

\* The same for a Scraper that makes at least one attempt
RaisesWhenRetriesPositive == retries >= 1 => C9_AlwaysFailRaises

(* C10: after a request that returns, the snapshot file holds exactly the
   list the request returned, in the same order, and nothing of an earlier
   snapshot. *)
C10_SnapshotIsReturnedList ==
    \A w \in Workers :
        pc[w] = "done"
        => /\ response[w] # None
           /\ snapshot = Some(JsonList(response[w][1].products))
           /\ \A i \in 1 .. Len(results[w]) :
                Loads(snapshot[1][i]) = results[w][i]

C10_Witness ==
    \E w \in Workers :
        /\ pc[w] = "done"
        /\ startSnap[w] # None
        /\ Len(startSnap[w][1]) = 2
        /\ Len(results[w]) = 1
        /\ snapshot = Some(JsonList(results[w]))

(* C11: the check-then-set of cache_product is atomic per key: when two
   requests run at the same time and both process the same product, whose
   title had no entry or another price, at most one of the two calls returns
   true. *)
C11_AtMostOneChanged ==
    \A v, w \in Workers :
        (/\ v # w
         /\ Returned(v)
         /\ Returned(w)
         /\ CurProduct(v) = CurProduct(w)
         /\ PreEntry(v) = PreEntry(w))
        => ~(ret[v] = TRUE /\ ret[w] = TRUE)

(* C12: a failure of notify is not propagated: the request still returns the
   changed list and ends as a success. *)
C12_NotifyFailureSwallowed ==
    \A w \in Workers :
        (exc[w] # None /\ exc[w][1].kind = "NotifyError")
        => /\ pc[w] # "failed"
           /\ response[w] # Some(Reply(500, <<>>))

(* C19: fetch_page returns a value only when one of its attempts got a
   successful response, and raises otherwise, for every value of retries
   including 0; so parse_page is never given a no-content value. *)
C19_NoContentNeverParsed ==
    \A w \in Workers :
        pc[w] = "parse_page"
        => /\ content[w] # None
           /\ okAt[w] > 0
           /\ content[w] = Some(PageContent(page[w]))

----------------------------------------------------------------------------
(* What a run over given pages should come to *)

\* The products of pages 1 .. n in scrape order
RECURSIVE ParsedUpTo(_)
ParsedUpTo(n) ==
    IF n <= 0 THEN <<>>
    ELSE ParsedUpTo(n - 1) \o ParsePageOf(Some(PageContent(n))).products

\* A product is changed against a store when its title has no entry there or
\* an entry with another price
Changed(store, p) ==
    \/ store[ProductKey(p.product_title)] = Nil
    \/ Loads(store[ProductKey(p.product_title)])["product_price"]
           # p.product_price

\* Going through ps in order from position i: the store and the changed
\* products, every changed product being stored before the next is looked at
RECURSIVE Replay(_, _, _, _)
Replay(ps, i, store, out) ==
    IF i > Len(ps) THEN [store |-> store, changed |-> out]
    ELSE IF Changed(store, ps[i])
         THEN Replay(ps, i + 1,
                     [store EXCEPT ![ProductKey(ps[i].product_title)] =
                                        Dumps(ps[i])],
                     Append(out, ps[i]))
         ELSE Replay(ps, i + 1, store, out)

\* The outcome of this request's cache work over its pages 1 .. n
Outcome(w, n) == Replay(ParsedUpTo(n), 1, startRedis[w], <<>>)

IsSet(e) == e.op = "set"

\* The cache writes of this request, in order
Writes(w) == SelectSeq(log[w], IsSet)

\* parse_page has run on the content of the current page
ParseRan(w) ==
    /\ page[w] >= 1
    /\ okAt[w] > 0
    /\ pc[w] \notin {"for_page", "fetch_page", "parse_page"}

(* C13: cache_product is idempotent under repeated input: a call right after
   a call with the same title and price returns false and leaves the store as
   the first call left it; the first call on a title without entry returns
   true and stores it. *)
C13_Idempotent ==
    \A w \in Workers :
        /\ (/\ Returned(w)
             /\ idx[w] >= 2
             /\ page_results[w][idx[w] - 1].product_title
                    = CurProduct(w).product_title
             /\ page_results[w][idx[w] - 1].product_price
                    = CurProduct(w).product_price)
            => /\ ret[w] = FALSE
               /\ redis = cpPre[w]
        /\ (Returned(w) /\ PreEntry(w) = Nil)
            => /\ ret[w] = TRUE
               /\ redis[CurKey(w)] # Nil

C13_Witness ==
    \E w \in Workers :
        /\ Returned(w)
        /\ idx[w] = 2
        /\ page_results[w][1] = page_results[w][2]
        /\ Len(log[w]) >= 3
        /\ log[w][Len(log[w]) - 1].op = "set"
        /\ ret[w] = FALSE
        /\ redis = cpPre[w]

(* C14: parse_page on a page whose K containers all have their title, price
   and image returns K products in document order (none when K = 0); when a
   container lacks one of them it raises, returning no partial list. *)
C14_ParseAllOrRaise ==
    \A w \in Workers :
        ParseRan(w)
        => LET c == content[w][1] IN
            IF \A i \in 1 .. Len(c) : IsWellFormed(c[i])
            THEN /\ ~(exc[w] # None /\ exc[w][1].kind = "ParseError")
                 /\ Len(page_results[w]) = Len(c)
                 /\ \A i \in 1 .. Len(c) :
                      page_results[w][i] =
                          Product(Strip(c[i].h2[1]), Strip(c[i].span[1]),
                                  Strip(c[i].img[1]))
            ELSE /\ pc[w] = "failed"
                 /\ exc[w] # None
                 /\ exc[w][1].kind = "ParseError"

C14_Witness ==
    \E w \in Workers :
        /\ ParseRan(w)
        /\ pc[w] = "for_product"
        /\ Len(content[w][1]) = 2
        /\ Len(page_results[w]) = 2
        /\ page_results[w][1].product_price # page_results[w][2].product_price

(* C15: the list a returning request returns is the subsequence, in page and
   document order, of the parsed products for which cache_product returned
   true; returned products and cache writes of the request correspond one to
   one. *)
C15_ReturnedAreTheWrites ==
    \A w \in Workers :
        /\ Len(Writes(w)) =
              Len(results[w]) + (IF Returned(w) /\ ret[w] THEN 1 ELSE 0)
        /\ \A i \in 1 .. Len(results[w]) :
              Writes(w)[i].key = ProductKey(results[w][i].product_title)
        /\ pc[w] = "done"
            => /\ results[w] =
                     Outcome(w, PageBound(limit_pages[w])).changed
               /\ response[w] = Some(Reply(200, results[w]))

C15_Witness ==
    \E w \in Workers :
        /\ pc[w] = "done"
        /\ Len(ParsedUpTo(PageBound(limit_pages[w]))) = 2
        /\ Len(results[w]) = 1
        /\ results[w][1] = ParsedUpTo(PageBound(limit_pages[w]))[2]
        /\ Len(Writes(w)) = 1

(* C16: when a request fails on page k by a fetch that gives up or a
   malformed page, the store holds exactly the writes for the changed
   products of pages 1 .. k-1 and none for page k or later, also not for the
   well-formed listings that precede a malformed one on page k. *)
C16_NoWriteFromFailedPage ==
    \A w \in Workers :
        (FetchGaveUp(w) \/ PageMalformed(w))
        => /\ \A i \in 1 .. Len(Writes(w)) : Writes(w)[i].page < page[w]
           /\ redis = Outcome(w, page[w] - 1).store
           /\ results[w] = Outcome(w, page[w] - 1).changed

C16_Witness ==
    \E w \in Workers :
        /\ PageMalformed(w)
        /\ pc[w] = "failed"
        /\ Len(content[w][1]) = 2
        /\ IsWellFormed(content[w][1][1])
        /\ ~IsWellFormed(content[w][1][2])
        /\ redis[ProductKey(ParseListing(content[w][1][1]).product_title)]
              = Nil

(* C17: when the snapshot write fails, the cache writes of the request are
   all committed and stay so, no notification is sent and the request ends
   with the error. *)
C17_SaveFailureAfterCache ==
    \A w \in Workers :
        (exc[w] # None /\ exc[w][1].kind = "OSError")
        => /\ pc[w] = "failed"
           /\ response[w] = Some(Reply(500, <<>>))
           /\ Count(w, "notify") = 0
           /\ Count(w, "save") = 0
           /\ Len(Writes(w)) = Len(results[w])
           /\ redis = Outcome(w, PageBound(limit_pages[w])).store

C17_Witness ==
    \E w \in Workers :
        /\ pc[w] = "failed"
        /\ exc[w] # None
        /\ exc[w][1].kind = "OSError"
        /\ Len(Writes(w)) = 2
        /\ redis # startRedis[w]

(* C20: with one request running, right after cache_product has processed a
   product the entry of its title holds that product's price, whatever the
   call returned; so after a returning request the cached price of every
   scraped title is that of its last listing in scrape order. *)
C20_CacheHoldsLastPrice ==
    \A w \in Workers :
        /\ Returned(w)
            => /\ redis[CurKey(w)] # Nil
               /\ Loads(redis[CurKey(w)])["product_price"]
                     = CurProduct(w).product_price
        /\ pc[w] = "done"
            => LET ps == ParsedUpTo(PageBound(limit_pages[w])) IN
                \A i \in 1 .. Len(ps) :
                    (\A j \in (i + 1) .. Len(ps) :
                        ps[j].product_title # ps[i].product_title)
                    => /\ redis[ProductKey(ps[i].product_title)] # Nil
                       /\ Loads(redis[ProductKey(ps[i].product_title)])
                              ["product_price"] = ps[i].product_price

C20_Witness ==
    \E w \in Workers :
        /\ pc[w] = "done"
        /\ LET ps == ParsedUpTo(PageBound(limit_pages[w])) IN
            /\ Len(ps) = 2
            /\ ps[1].product_title = ps[2].product_title
            /\ ps[1].product_price # ps[2].product_price
            /\ Loads(redis[ProductKey(ps[2].product_title)])
                  ["product_price"] = ps[2].product_price

----------------------------------------------------------------------------
\* The scrape call of the request was entered
InScrape(w) == pc[w] \notin {"idle", "get_current_user", "forbidden"}

\* The scrape call of the request returned or raised
ScrapeEnded(w) == pc[w] \in {"done", "failed"}

\* The pages the loop of main.py:121 visits at most
LoopPages(limit) == IF PageBound(limit) > 0 THEN PageBound(limit) ELSE 0

Max0(n) == IF n > 0 THEN n ELSE 0

\* The attempts and delays of a scrape call stay within n * retries and
\* n * (retries - 1)
WithinStated(w, n) ==
    /\ meter[w][1].attempts <= n * retries
    /\ meter[w][1].delays <= n * (retries - 1)

\* Every scrape call that was entered returns or raises
EveryScrapeEnds ==
    \A w \in Workers : InScrape(w) ~> ScrapeEnded(w)

\* Every scrape call that was entered returns, raises, or is inside a
\* requests.get call that does not return
EndsOrBlocksInGet ==
    \A w \in Workers :
        InScrape(w) ~> (ScrapeEnded(w) \/ pc[w] = "requests_get")

\* At most n * retries attempts and n * max(retries - 1, 0) delays, n being
\* the pages the loop visits at most
WithinLoopBounds ==
    \A w \in Workers :
        InScrape(w)
        => /\ meter[w][1].attempts <= LoopPages(limit_pages[w]) * retries
           /\ meter[w][1].delays
                  <= LoopPages(limit_pages[w]) * Max0(retries - 1)

(* C18: every scrape call ends, by returning or by raising, whatever the
   site answers, and makes at most N * retries fetch attempts and at most
   N * (retries - 1) delays, N being the bound of the page loop. *)
C18_TerminatesWithinBounds ==
    /\ [](\A w \in Workers :
            InScrape(w) => WithinStated(w, PageBound(limit_pages[w])))
    /\ EveryScrapeEnds

====
